---- MODULE Spec2Model ----
(***************************************************************************)
(* Model of the SourceMod minimal YAML parser (core/yaml-cpp): the Node    *)
(* tree with its intrusive child list, the copy constructor, the lookup    *)
(* and builder operations, Parser::Load with its per-line helpers and      *)
(* Parser::LoadFile; and of YAMLConfigParser, the line-based reader of the *)
(* mode group configuration (ParseContent, ShouldLoadPlugin, Clear).       *)
(*                                                                         *)
(* A C string is a sequence of one-character strings; a char* that may be  *)
(* nullptr is <<>> (nullptr) or <<text>> (an owned buffer holding text).   *)
(* Nodes live in a heap (a sequence of node records, a node's address is   *)
(* its index, 0 is nullptr); the first_child_/next_sibling_/last_child_    *)
(* list of a node is the sequence "children" of addresses.                 *)
(***************************************************************************)
EXTENDS Integers, Sequences, FiniteSets, TLC

\* ------------------------------------------------------------------------
\* Bounds of the model
\* ------------------------------------------------------------------------
MaxLines == 3
MaxChars == 3
MaxOps == 2

\* ------------------------------------------------------------------------
\* Program constants
\* ------------------------------------------------------------------------
LineBufferSize == 4096
KeyBufferSize == 1024
ValueBufferSize == 1024
IndentStackSize == 64
TabWidth == 4

\* ------------------------------------------------------------------------
\* Characters and C strings
\* ------------------------------------------------------------------------
NUL == ""
NullPtr == <<>>

\* strdup(text): a fresh owned buffer holding a copy of text
StrDup(text) == <<text>>

\* <cctype> isspace in the "C" locale
IsSpace(c) == c \in {" ", "\t", "\n", "\r", "\f"}

\* s[i] of a NUL-terminated string, i counted from 0
CharAt(s, i) == IF i >= 0 /\ i < Len(s) THEN s[i + 1] ELSE NUL

\* the suffix of s starting at offset i (the pointer s + i)
StrFrom(s, i) == IF i >= Len(s) THEN <<>> ELSE SubSeq(s, i + 1, Len(s))

\* strncpy(dst, src, n) followed by dst[n] = '\0'
StrNCpy(s, n) == IF Len(s) <= n THEN s ELSE SubSeq(s, 1, n)

DigitVal(c) ==
    CASE c = "0" -> 0 [] c = "1" -> 1 [] c = "2" -> 2 [] c = "3" -> 3
      [] c = "4" -> 4 [] c = "5" -> 5 [] c = "6" -> 6 [] c = "7" -> 7
      [] c = "8" -> 8 [] c = "9" -> 9 [] OTHER -> -1

IsDigit(c) == DigitVal(c) >= 0

\* ------------------------------------------------------------------------
\* Node
\* ------------------------------------------------------------------------
NodeTypes == {"Type_Null", "Type_Scalar", "Type_Sequence", "Type_Map"}

\* a node whose storage has been released by delete
FreedNode ==
    [type_ |-> "freed", tag_ |-> NullPtr, scalar_value_ |-> NullPtr,
     children |-> <<>>, map_key_ |-> 0]

\* Node::Node(const char* tag)
NodeCtor(tag) ==
    [type_ |-> "Type_Null", tag_ |-> tag, scalar_value_ |-> NullPtr,
     children |-> <<>>, map_key_ |-> 0]

\* new Node(...): the address of the next allocation
NewAddr(h) == Len(h) + 1

\* Node::AddChild on the node at address parent
AddChild(h, parent, child) ==
    IF child = 0 THEN h
    ELSE [h EXCEPT ![parent].children = Append(@, child)]

\* Node::SetMapKey
SetMapKey(h, n, key) == [h EXCEPT ![n].map_key_ = key]

\* a copy constructor that copies the child list pointers instead of the
\* children (a member-wise copy)
CopyCtor_Shallow(h, other) ==
    [heap |-> Append(h, [h[other] EXCEPT !.map_key_ = 0]), id |-> NewAddr(h)]

RECURSIVE CopyCtor(_, _)
RECURSIVE CopyChildren(_, _, _, _)

\* the "Deep copy children" loop of the copy constructor
CopyChildren(h, dst, kids, i) ==
    IF i > Len(kids) THEN [heap |-> h, id |-> dst]
    ELSE LET c == CopyCtor(h, kids[i])
         IN CopyChildren(AddChild(c.heap, dst, c.id), dst, kids, i + 1)

\* Node::Node(const Node& other): the copy is placed at a new address
CopyCtor(h, other) ==
    LET o == h[other]
        dst == NewAddr(h)
        h0 == Append(h, [type_ |-> o.type_,
                         tag_ |-> IF o.tag_ # NullPtr THEN StrDup(o.tag_[1]) ELSE NullPtr,
                         scalar_value_ |-> IF o.scalar_value_ # NullPtr
                                           THEN StrDup(o.scalar_value_[1]) ELSE NullPtr,
                         children |-> <<>>, map_key_ |-> 0])
    IN CopyChildren(h0, dst, o.children, 1)

RECURSIVE Dtor(_, _)
RECURSIVE DeleteChildren(_, _, _)

\* the "Delete all children" loop of ~Node and Clear
DeleteChildren(h, kids, i) ==
    IF i > Len(kids) THEN h
    ELSE DeleteChildren(Dtor(h, kids[i]), kids, i + 1)

\* delete n: Node::~Node and release of the storage
Dtor(h, n) ==
    LET h1 == DeleteChildren(h, h[n].children, 1)
    IN [h1 EXCEPT ![n] = FreedNode]

\* Node::Clear
Clear(h, n) ==
    LET h1 == DeleteChildren(h, h[n].children, 1)
    IN [h1 EXCEPT ![n] = [type_ |-> h[n].type_, tag_ |-> NullPtr,
                          scalar_value_ |-> NullPtr, children |-> <<>>,
                          map_key_ |-> 0]]

\* Node::size
RECURSIVE SizeFrom(_, _, _, _)
SizeFrom(h, kids, i, count) ==
    IF i > Len(kids) THEN count
    ELSE SizeFrom(h, kids, i + 1,
                  IF h[kids[i]].map_key_ = 0 THEN count + 1 ELSE count)

size(h, n) == SizeFrom(h, h[n].children, 1, 0)

\* the positional lookup counting a child before comparing (off by one)
RECURSIVE FindIndex_OffByOne(_, _, _, _, _)
FindIndex_OffByOne(h, kids, i, current, index) ==
    IF i > Len(kids) THEN 0
    ELSE IF h[kids[i]].map_key_ = 0
         THEN IF current + 1 = index THEN kids[i]
              ELSE FindIndex_OffByOne(h, kids, i + 1, current + 1, index)
         ELSE FindIndex_OffByOne(h, kids, i + 1, current, index)

\* the loop of Node::operator[](size_t): the address of the child found, or 0
RECURSIVE FindIndex(_, _, _, _, _)
FindIndex(h, kids, i, current, index) ==
    IF i > Len(kids) THEN 0
    ELSE IF h[kids[i]].map_key_ = 0
         THEN IF current = index THEN kids[i]
              ELSE FindIndex(h, kids, i + 1, current + 1, index)
         ELSE FindIndex(h, kids, i + 1, current, index)

\* the key lookup with the comparison against the key text left out: the
\* first child that has a key side-node is taken
RECURSIVE FindKey_AnyKey(_, _, _, _)
FindKey_AnyKey(h, kids, i, key) ==
    IF i > Len(kids) THEN 0
    ELSE IF h[kids[i]].map_key_ # 0 THEN kids[i]
         ELSE FindKey_AnyKey(h, kids, i + 1, key)

\* the key lookup that keeps walking after a match: the last child with the
\* key is taken
RECURSIVE FindKey_LastMatch(_, _, _, _)
FindKey_LastMatch(h, kids, i, key) ==
    IF i > Len(kids) THEN 0
    ELSE LET mk == h[kids[i]].map_key_
             rest == FindKey_LastMatch(h, kids, i + 1, key)
         IN IF rest # 0 THEN rest
            ELSE IF mk # 0 /\ h[mk].scalar_value_ # NullPtr /\ h[mk].scalar_value_[1] = key
                 THEN kids[i]
                 ELSE 0

\* the loop of Node::operator[](const char*): the address of the child found, or 0
RECURSIVE FindKey(_, _, _, _)
FindKey(h, kids, i, key) ==
    IF i > Len(kids) THEN 0
    ELSE LET mk == h[kids[i]].map_key_
         IN IF mk # 0 /\ h[mk].scalar_value_ # NullPtr /\ h[mk].scalar_value_[1] = key
            THEN kids[i]
            ELSE FindKey(h, kids, i + 1, key)

\* a Node returned by value: the heap holding the temporary and its address
ReturnNode(h, found) ==
    IF found # 0 THEN CopyCtor(h, found)
    ELSE [heap |-> Append(h, NodeCtor(NullPtr)), id |-> NewAddr(h)]

\* Node::operator[](size_t index)
IndexAt(h, n, index) == ReturnNode(h, FindIndex(h, h[n].children, 1, 0, index))

\* Node::operator[](const char* key)
IndexKey(h, n, key) == ReturnNode(h, FindKey(h, h[n].children, 1, key))

\* the loop of Node::HasKey
RECURSIVE HasKeyFrom(_, _, _, _)
HasKeyFrom(h, kids, i, key) ==
    IF i > Len(kids) THEN FALSE
    ELSE LET mk == h[kids[i]].map_key_
         IN IF mk # 0 /\ h[mk].scalar_value_ # NullPtr /\ h[mk].scalar_value_[1] = key
            THEN TRUE
            ELSE HasKeyFrom(h, kids, i + 1, key)

\* Node::HasKey
HasKey(h, n, key) == HasKeyFrom(h, h[n].children, 1, key)

\* Node::push_back(const Node& node)
push_back_node(h, n, node) ==
    LET c == CopyCtor(h, node) IN AddChild(c.heap, n, c.id)

\* Node::push_back(const char* value)
push_back_str(h, n, value) ==
    LET child == NewAddr(h)
        h1 == Append(h, [NodeCtor(NullPtr) EXCEPT !.type_ = "Type_Scalar",
                                                  !.scalar_value_ = StrDup(value)])
    IN AddChild(h1, n, child)

\* snprintf(buffer, sizeof(buffer), "%d", value)
RECURSIVE FormatNat(_)
FormatNat(v) ==
    LET d == <<"0", "1", "2", "3", "4", "5", "6", "7", "8", "9">>[(v % 10) + 1]
    IN IF v < 10 THEN <<d>> ELSE Append(FormatNat(v \div 10), d)

FormatInt_NoSign(v) == IF v < 0 THEN FormatNat(-v) ELSE FormatNat(v)

\* snprintf(buffer, sizeof(buffer), "%d", value)
FormatInt(v) == IF v < 0 THEN <<"-">> \o FormatNat(-v) ELSE FormatNat(v)

AssignStr_NoClear(h, n, value) ==
    [h EXCEPT ![n].type_ = "Type_Scalar", ![n].scalar_value_ = StrDup(value)]

\* Node::operator=(const char* value)
AssignStr(h, n, value) ==
    [Clear(h, n) EXCEPT ![n].type_ = "Type_Scalar", ![n].scalar_value_ = StrDup(value)]

\* Node::operator=(int value)
AssignInt(h, n, value) ==
    [Clear(h, n) EXCEPT ![n].type_ = "Type_Scalar",
                        ![n].scalar_value_ = StrDup(FormatInt(value))]

\* Node::operator=(bool value)
AssignBool(h, n, value) ==
    [Clear(h, n) EXCEPT ![n].type_ = "Type_Scalar",
                        ![n].scalar_value_ =
                            StrDup(IF value THEN <<"t", "r", "u", "e">>
                                   ELSE <<"f", "a", "l", "s", "e">>)]

\* Node::as_string
as_string(h, n) == IF h[n].scalar_value_ # NullPtr THEN h[n].scalar_value_[1] ELSE <<>>

\* atoi: optional white space, optional sign, then decimal digits
RECURSIVE AtoiDigits(_, _, _)
AtoiDigits(s, i, acc) ==
    IF IsDigit(CharAt(s, i)) THEN AtoiDigits(s, i + 1, acc * 10 + DigitVal(CharAt(s, i)))
    ELSE acc

RECURSIVE SkipSpaces(_, _)
SkipSpaces(s, i) == IF IsSpace(CharAt(s, i)) THEN SkipSpaces(s, i + 1) ELSE i

Atoi(s) ==
    LET i == SkipSpaces(s, 0)
    IN IF CharAt(s, i) = "-" THEN 0 - AtoiDigits(s, i + 1, 0)
       ELSE IF CharAt(s, i) = "+" THEN AtoiDigits(s, i + 1, 0)
       ELSE AtoiDigits(s, i, 0)

\* Node::as_int
as_int(h, n) == IF h[n].scalar_value_ # NullPtr THEN Atoi(h[n].scalar_value_[1]) ELSE 0

as_bool_Loose(h, n) ==
    IF h[n].scalar_value_ = NullPtr THEN FALSE
    ELSE h[n].scalar_value_[1] \in {<<"t", "r", "u", "e">>, <<"y", "e", "s">>, <<"1">>,
                                    <<"T", "r", "u", "e">>, <<"o", "n">>}

\* Node::as_bool
as_bool(h, n) ==
    IF h[n].scalar_value_ = NullPtr THEN FALSE
    ELSE h[n].scalar_value_[1] \in {<<"t", "r", "u", "e">>, <<"y", "e", "s">>, <<"1">>}

IsNull(h, n) == h[n].type_ = "Type_Null"
IsScalar(h, n) == h[n].type_ = "Type_Scalar"
IsSequence(h, n) == h[n].type_ = "Type_Sequence"
IsMap(h, n) == h[n].type_ = "Type_Map"

\* ------------------------------------------------------------------------
\* Parser
\* ------------------------------------------------------------------------

\* Parser::ParseState before Load has filled it in
NoParseState ==
    [content |-> <<>>, length |-> 0, position |-> 0, line |-> 0, column |-> 0,
     indent_stack |-> <<>>, indent_top |-> 0, root |-> 0, current |-> 0,
     current_key |-> 0, in_sequence |-> FALSE]

\* Parser::SkipWhitespace
RECURSIVE SkipWhitespace(_)
SkipWhitespace(st) ==
    IF st.position < st.length /\ IsSpace(CharAt(st.content, st.position))
    THEN LET nl == CharAt(st.content, st.position) = "\n"
         IN SkipWhitespace([st EXCEPT !.line = IF nl THEN @ + 1 ELSE @,
                                      !.column = (IF nl THEN 0 ELSE @) + 1,
                                      !.position = @ + 1])
    ELSE st

\* the copy loop of Parser::ReadToEndOfLine
RECURSIVE ReadChars(_, _, _)
ReadChars(st, buffer, bufsize) ==
    IF Len(buffer) < bufsize - 1 /\ st.position < st.length
       /\ CharAt(st.content, st.position) # "\n"
    THEN ReadChars([st EXCEPT !.position = @ + 1],
                   Append(buffer, CharAt(st.content, st.position)), bufsize)
    ELSE [state |-> st, buffer |-> buffer]

\* ReadToEndOfLine with the cursor left where it was (position++ forgotten)
ReadToEndOfLine_NoAdvance(st, bufsize) ==
    [state |-> st, buffer |-> ReadChars(st, <<>>, bufsize).buffer]

\* Parser::ReadToEndOfLine
ReadToEndOfLine(st, bufsize) ==
    LET r == ReadChars(st, <<>>, bufsize)
        s == r.state
    IN IF s.position < s.length /\ CharAt(s.content, s.position) = "\n"
       THEN [state |-> [s EXCEPT !.position = @ + 1, !.line = @ + 1, !.column = 0],
             buffer |-> r.buffer]
       ELSE r

\* Parser::GetIndent
RECURSIVE IndentFrom(_, _, _)
IndentFrom(s, p, indent) ==
    IF CharAt(s, p) = " " THEN IndentFrom(s, p + 1, indent + 1)
    ELSE IF CharAt(s, p) = "\t" THEN IndentFrom(s, p + 1, indent + TabWidth)
    ELSE indent

GetIndent(st) == IndentFrom(st.content, st.position, 0)

\* Parser::TrimTrailingWhitespace
RECURSIVE TrimTrailingWhitespace(_)
TrimTrailingWhitespace(str) ==
    IF Len(str) > 0 /\ IsSpace(str[Len(str)])
    THEN TrimTrailingWhitespace(SubSeq(str, 1, Len(str) - 1))
    ELSE str

\* ProcessLine, "Determine line type": the offset where the key ends
RECURSIVE ScanKey(_, _)
ScanKey(line, p) ==
    IF CharAt(line, p) # NUL /\ CharAt(line, p) # ":" /\ ~IsSpace(CharAt(line, p))
    THEN ScanKey(line, p + 1)
    ELSE p

\* ProcessLine, "Extract key"
KeyBuffer(line, p) ==
    StrNCpy(line, IF p >= KeyBufferSize THEN KeyBufferSize - 1 ELSE p)

\* ProcessLine, "Skip past colon and whitespace": the offset of value_start
ValueStart(line, p) ==
    IF CharAt(line, p) = ":" THEN SkipSpaces(line, p + 1) ELSE p

\* ProcessLine, "Determine parent node based on indent"
\* the pop loop written as a do-while: one level is popped before any test
PopIndent_AlwaysPops(st, h, indent) == [st EXCEPT !.indent_top = @ - 1]

\* the pop loop with < in place of <=
RECURSIVE PopIndent_Strict(_, _, _)
PopIndent_Strict(st, h, indent) ==
    IF st.indent_top > 0 /\ indent < st.indent_stack[st.indent_top]
    THEN LET c1 == IF h[st.current].map_key_ # 0 THEN h[st.current].map_key_
                   ELSE st.current
             kids == h[c1].children
             last == IF kids # <<>> THEN kids[Len(kids)] ELSE 0
             c2 == IF last # 0 /\ h[last].map_key_ # 0 THEN last ELSE c1
         IN PopIndent_Strict([st EXCEPT !.indent_top = @ - 1, !.current = c2], h, indent)
    ELSE st

RECURSIVE PopIndent(_, _, _)
PopIndent(st, h, indent) ==
    IF st.indent_top > 0 /\ indent <= st.indent_stack[st.indent_top]
    THEN LET c1 == IF h[st.current].map_key_ # 0 THEN h[st.current].map_key_
                   ELSE st.current
             kids == h[c1].children
             last == IF kids # <<>> THEN kids[Len(kids)] ELSE 0
             c2 == IF last # 0 /\ h[last].map_key_ # 0 THEN last ELSE c1
         IN PopIndent([st EXCEPT !.indent_top = @ - 1, !.current = c2], h, indent)
    ELSE st

\* ProcessLine: the test that makes the line a new mapping
IsMappingOpener(st, line, p, indent) ==
    LET v == CharAt(line, ValueStart(line, p))
    IN CharAt(line, p) = ":"
       /\ (v = NUL \/ v = "#"
           \/ (st.indent_top >= 0 /\ indent > st.indent_stack[st.indent_top]))

\* ProcessLine: the test that makes the line a sequence item
IsSequenceItem(line, p) ==
    LET vs == ValueStart(line, p)
    IN CharAt(line, vs) = "-" /\ CharAt(line, vs + 1) = " "

\* value_buffer after strncpy and TrimTrailingWhitespace
ValueBuffer(line, from) ==
    TrimTrailingWhitespace(StrNCpy(StrFrom(line, from), ValueBufferSize - 1))

\* Parser::ProcessLine
ProcessLine(st0, h, line, indent) ==
    LET p == ScanKey(line, 0)
        key_buffer == KeyBuffer(line, p)
        value_start == ValueStart(line, p)
        st == PopIndent(st0, h, indent)
        a1 == NewAddr(h)
        a2 == a1 + 1
        scalar(text, key) == [NodeCtor(NullPtr) EXCEPT !.type_ = "Type_Scalar",
                                                      !.scalar_value_ = StrDup(text),
                                                      !.map_key_ = key]
    IN IF IsMappingOpener(st, line, p, indent)
       THEN LET new_node == [NodeCtor(NullPtr) EXCEPT !.type_ = "Type_Map",
                                                      !.scalar_value_ = StrDup(key_buffer)]
                h1 == AddChild(Append(h, new_node), st.current, a1)
                h2 == SetMapKey(Append(h1, scalar(key_buffer, 0)), a1, a2)
                top == st.indent_top + 1
            IN [state |-> [st EXCEPT !.indent_top = top,
                                     !.indent_stack =
                                         [i \in (DOMAIN st.indent_stack) \cup {top} |->
                                             IF i = top THEN indent ELSE st.indent_stack[i]],
                                     !.current = a1],
                heap |-> h2]
       ELSE IF IsSequenceItem(line, p)
       THEN [state |-> st,
             heap |-> AddChild(Append(h, scalar(ValueBuffer(line, value_start + 2), 0)),
                               st.current, a1)]
       ELSE LET h1 == Append(h, scalar(ValueBuffer(line, value_start), 0))
                h2 == SetMapKey(Append(h1, scalar(key_buffer, 0)), a1, a2)
            IN [state |-> st, heap |-> AddChild(h2, st.current, a1)]

\* Parser::Load up to the line loop
LoadBegin(h, content) ==
    [state |-> [content |-> content, length |-> Len(content), position |-> 0,
                line |-> 0, column |-> 0,
                indent_top |-> 0, indent_stack |-> [i \in {0} |-> -1],
                root |-> NewAddr(h), current |-> NewAddr(h),
                current_key |-> 0, in_sequence |-> FALSE],
     heap |-> Append(h, NodeCtor(NullPtr))]

\* the line loop iteration without the test for a leading comment marker
LoadLine_KeepComments(st, h) ==
    LET r == ReadToEndOfLine(st, LineBufferSize)
        s1 == SkipWhitespace(r.state)
    IN IF s1.position >= s1.length \/ CharAt(r.buffer, 0) = NUL
       THEN [state |-> s1, heap |-> h, line_buffer |-> r.buffer, processed |-> FALSE,
             indent |-> 0]
       ELSE LET indent == GetIndent(s1)
                pl == ProcessLine(s1, h, r.buffer, indent)
            IN [state |-> pl.state, heap |-> pl.heap, line_buffer |-> r.buffer,
                processed |-> TRUE, indent |-> indent]

\* one iteration of the line loop of Parser::Load
LoadLine(st, h) ==
    LET r == ReadToEndOfLine(st, LineBufferSize)
        s1 == SkipWhitespace(r.state)
    IN IF s1.position >= s1.length \/ CharAt(r.buffer, 0) = NUL \/ CharAt(r.buffer, 0) = "#"
       THEN [state |-> s1, heap |-> h, line_buffer |-> r.buffer, processed |-> FALSE,
             indent |-> 0]
       ELSE LET indent == GetIndent(s1)
                pl == ProcessLine(s1, h, r.buffer, indent)
            IN [state |-> pl.state, heap |-> pl.heap, line_buffer |-> r.buffer,
                processed |-> TRUE, indent |-> indent]

\* the line loop of Parser::Load run to its end
RECURSIVE LoadLoop(_, _)
LoadLoop(st, h) ==
    IF st.position < st.length
    THEN LET r == LoadLine(st, h) IN LoadLoop(r.state, r.heap)
    ELSE [state |-> st, heap |-> h]

\* Parser::Load: the heap after the call and the address of the returned Node
Load(h, content) ==
    LET b == LoadBegin(h, content)
        e == LoadLoop(b.state, b.heap)
    IN CopyCtor(e.heap, e.state.root)

\* Parser::ParseError: the Exception thrown, carrying the formatted message
ParseError(message) == <<message>>

\* ------------------------------------------------------------------------
\* Inputs
\* ------------------------------------------------------------------------
Alphabet == {"a", ":", " ", "-", "#", "\n"}

\* the physical lines inputs are made of
LineSet ==
    { <<"a", ":", " ", "x">>,
      <<"b", ":", " ", "5">>,
      <<"a", ":">>,
      <<" ", " ", "b", ":", " ", "x">>,
      <<" ", " ", "-", " ", "x">>,
      <<" ", " ", "-", " ", "y">>,
      <<>>,
      <<" ", "\t">>,
      <<" ", " ", "#", "c">>,
      <<"a", " ", "x">> }

RECURSIVE JoinLines(_, _)
JoinLines(ls, i) ==
    IF i > Len(ls) THEN <<>>
    ELSE ls[i] \o (IF i < Len(ls) THEN <<"\n">> ELSE <<>>) \o JoinLines(ls, i + 1)

LineSeqs(lines, n) == UNION { [1..k -> lines] : k \in 0..n }

\* texts of up to MaxLines lines, with and without a final newline
LineInputs ==
    { JoinLines(ls, 1) \o nl : ls \in LineSeqs(LineSet, MaxLines), nl \in {<<>>, <<"\n">>} }

\* every text of up to MaxChars characters
CharInputs == LineSeqs(Alphabet, MaxChars)

Inputs == LineInputs \cup CharInputs

\* ------------------------------------------------------------------------
\* State
\* ------------------------------------------------------------------------
VARIABLES
    state,        \* the ParseState of the running Load
    line_buffer,  \* the line_buffer of the running Load
    heap,         \* the Node objects
    docs,         \* the Node objects the caller holds: name -> address
    pc,           \* "idle", "loop" (in the line loop of Load), "done"
    exception,    \* the Exception in flight: NullPtr or <<message>>
    made,         \* how each Node object of the caller came to be
    last,         \* the operation performed by the last step
    nops,         \* number of Node operations performed by the caller
    io,           \* the file LoadFile works on: its bytes, fp, size, content, read
    mode_groups_, \* YAMLConfigParser::mode_groups_
    plugins_,     \* YAMLConfigParser::plugins_
    parse_error_, \* YAMLConfigParser::parse_error_
    last_error_   \* YAMLConfigParser::last_error_

\* the fields of the YAMLConfigParser object
parserVars == <<mode_groups_, plugins_, parse_error_, last_error_>>

vars == <<state, line_buffer, heap, docs, pc, exception, made, last, nops, io, parserVars>>

Slots == {"d", "d2", "r"}
Keys == { <<"a">>, <<"b">>, <<"z">> }
Values == { <<"x">>, <<"t", "r", "u", "e">> }
IntValues == {0, 5, -12}
\* the texts the caller assigns, and the tags it constructs nodes with
StrValues ==
    { <<"x">>, <<"t", "r", "u", "e">>, <<"y", "e", "s">>, <<"1">>,
      <<"T", "r", "u", "e">>, <<"Y", "E", "S">>, <<"5">>, <<"o", "n">>, <<>> }
Tags == { NullPtr, StrDup(<<"t">>) }
Indexes == 0..3

\* no file has been handed to LoadFile or LoadModeGroupConfig
NoFile == [bytes |-> <<>>, fp |-> "none", size |-> 0, content |-> FALSE, read |-> 0]

\* the operation recorded by a step
Op(op, target, src, arg) == [op |-> op, target |-> target, src |-> src, arg |-> arg]

Init ==
    /\ state = NoParseState
    /\ line_buffer = <<>>
    /\ heap = <<>>
    /\ docs = [s \in Slots |-> 0]
    /\ pc = "idle"
    /\ exception = NullPtr
    /\ made = [s \in Slots |-> Op("none", s, "", 0)]
    /\ last = Op("none", "", "", 0)
    /\ nops = 0
    /\ io = NoFile
    /\ mode_groups_ = <<>>
    /\ plugins_ = <<>>
    /\ parse_error_ = FALSE
    /\ last_error_ = <<>>

\* Parser::Load is entered with the text content
LoadCall(content) ==
    /\ pc = "idle"
    /\ LET b == LoadBegin(heap, content)
       IN /\ state' = b.state
          /\ heap' = b.heap
    /\ line_buffer' = <<>>
    /\ pc' = "loop"
    /\ last' = Op("Load", "", "", 0)
    /\ UNCHANGED <<io, parserVars, docs, exception, made, nops>>

\* one iteration of the line loop
LoadIter ==
    /\ pc = "loop"
    /\ state.position < state.length
    /\ LET r == LoadLine(state, heap)
       IN /\ state' = r.state
          /\ heap' = r.heap
          /\ line_buffer' = r.line_buffer
          /\ last' = Op("line", "", "", [processed |-> r.processed, indent |-> r.indent])
    /\ UNCHANGED <<io, parserVars, docs, pc, exception, made, nops>>

\* the loop has ended: return *state.root
LoadReturn ==
    /\ pc = "loop"
    /\ state.position >= state.length
    /\ LET c == CopyCtor(heap, state.root)
       IN /\ heap' = c.heap
          /\ docs' = [docs EXCEPT !["d"] = c.id]
    /\ pc' = "done"
    /\ last' = Op("return", "d", "", 0)
    /\ made' = [made EXCEPT !["d"] = Op("return", "d", "", 0)]
    /\ UNCHANGED <<io, parserVars, state, line_buffer, exception, nops>>

\* the caller's Node objects that exist
Held == { s \in Slots : docs[s] # 0 }

\* a caller's operation on its Node objects may start
CanOp == pc = "done" /\ nops < MaxOps

\* Node n; or Node n(tag);
NewNode(dst, tag) ==
    /\ CanOp /\ docs[dst] = 0
    /\ heap' = Append(heap, NodeCtor(tag))
    /\ docs' = [docs EXCEPT ![dst] = NewAddr(heap)]
    /\ last' = Op("new", dst, "", tag)
    /\ made' = [made EXCEPT ![dst] = Op("new", dst, "", tag)]
    /\ nops' = nops + 1
    /\ UNCHANGED <<io, parserVars, state, line_buffer, pc, exception>>

\* Node dst(src);
CopyNode(src, dst) ==
    /\ CanOp /\ docs[src] # 0 /\ docs[dst] = 0
    /\ LET c == CopyCtor(heap, docs[src])
       IN /\ heap' = c.heap
          /\ docs' = [docs EXCEPT ![dst] = c.id]
    /\ last' = Op("copy", dst, src, 0)
    /\ made' = [made EXCEPT ![dst] = Op("copy", dst, src, 0)]
    /\ nops' = nops + 1
    /\ UNCHANGED <<io, parserVars, state, line_buffer, pc, exception>>

\* Node dst = src[key];
LookupKey(src, key, dst) ==
    /\ CanOp /\ docs[src] # 0 /\ docs[dst] = 0
    /\ LET r == IndexKey(heap, docs[src], key)
       IN /\ heap' = r.heap
          /\ docs' = [docs EXCEPT ![dst] = r.id]
    /\ last' = Op("index_key", dst, src, key)
    /\ made' = [made EXCEPT ![dst] = Op("index_key", dst, src, key)]
    /\ nops' = nops + 1
    /\ UNCHANGED <<io, parserVars, state, line_buffer, pc, exception>>

\* Node dst = src[index];
LookupIndex(src, index, dst) ==
    /\ CanOp /\ docs[src] # 0 /\ docs[dst] = 0
    /\ LET r == IndexAt(heap, docs[src], index)
       IN /\ heap' = r.heap
          /\ docs' = [docs EXCEPT ![dst] = r.id]
    /\ last' = Op("index_at", dst, src, index)
    /\ made' = [made EXCEPT ![dst] = Op("index_at", dst, src, index)]
    /\ nops' = nops + 1
    /\ UNCHANGED <<io, parserVars, state, line_buffer, pc, exception>>

\* target.push_back(value);
PushBackStr(target, value) ==
    /\ CanOp /\ docs[target] # 0
    /\ heap' = push_back_str(heap, docs[target], value)
    /\ last' = Op("push_back_str", target, "", value)
    /\ nops' = nops + 1
    /\ UNCHANGED <<io, parserVars, state, line_buffer, docs, pc, exception, made>>

\* target.push_back(src);
PushBackNode(target, src) ==
    /\ CanOp /\ docs[target] # 0 /\ docs[src] # 0
    /\ heap' = push_back_node(heap, docs[target], docs[src])
    /\ last' = Op("push_back_node", target, src, 0)
    /\ nops' = nops + 1
    /\ UNCHANGED <<io, parserVars, state, line_buffer, docs, pc, exception, made>>

\* target = value; for a string, an int or a bool
Assign(target, kind, value) ==
    /\ CanOp /\ docs[target] # 0
    /\ heap' = CASE kind = "str" -> AssignStr(heap, docs[target], value)
                 [] kind = "int" -> AssignInt(heap, docs[target], value)
                 [] kind = "bool" -> AssignBool(heap, docs[target], value)
    /\ last' = Op("assign_" \o kind, target, "", value)
    /\ nops' = nops + 1
    /\ UNCHANGED <<io, parserVars, state, line_buffer, docs, pc, exception, made>>

Next ==
    \/ pc = "idle" /\ \E content \in Inputs : LoadCall(content)
    \/ LoadIter
    \/ LoadReturn

Spec == Init /\ [][Next]_vars

\* the texts the caller's documents are loaded from
NodeInputs ==
    { <<>>,
      <<"a", " ", "x", "\n", "b", " ", "5", "\n", "z">>,
      <<"a", " ", "x", "\n", "a", " ", "y", "\n", "z">>,
      <<"-", " ", "y", "\n", "b", ":", " ", "5", "\n", "a", " ", "x", "\n", "z">>,
      <<"a", ":", "\n", " ", " ", "b", ":", " ", "x", "\n">> }

NodeOp ==
    \/ \E dst \in Slots, tag \in Tags : NewNode(dst, tag)
    \/ \E src, dst \in Slots : CopyNode(src, dst)
    \/ \E src, dst \in Slots, key \in Keys : LookupKey(src, key, dst)
    \/ \E src, dst \in Slots, index \in Indexes : LookupIndex(src, index, dst)
    \/ \E target \in Slots, value \in Values : PushBackStr(target, value)
    \/ \E target, src \in Slots : PushBackNode(target, src)
    \/ \E target \in Slots, value \in StrValues : Assign(target, "str", value)
    \/ \E target \in Slots, value \in IntValues : Assign(target, "int", value)
    \/ \E target \in Slots, value \in BOOLEAN : Assign(target, "bool", value)

NextNode ==
    \/ pc = "idle" /\ \E content \in NodeInputs : LoadCall(content)
    \/ LoadIter
    \/ LoadReturn
    \/ NodeOp

SpecNode == Init /\ [][NextNode]_vars

\* ------------------------------------------------------------------------
\* Properties
\* ------------------------------------------------------------------------

\* the structure below a node: kind, tag, text, key side-node and children
RECURSIVE NodeValue(_, _)
NodeValue(h, n) ==
    [type_ |-> h[n].type_, tag_ |-> h[n].tag_, scalar_value_ |-> h[n].scalar_value_,
     key |-> IF h[n].map_key_ = 0 THEN <<>> ELSE <<NodeValue(h, h[n].map_key_)>>,
     children |-> [i \in 1..Len(h[n].children) |-> NodeValue(h, h[n].children[i])]]

\* C4: Load on any in-memory text terminates and returns a tree without
\* raising: every iteration of the line loop moves the cursor strictly
\* forward and never past the end of the text, no step of Load leaves an
\* Exception in flight, and when the loop ends a Node is returned.
C4_LoadAdvancesNeverRaises ==
    [][/\ (pc = "loop" /\ pc' = "loop") =>
              /\ state'.position > state.position
              /\ state'.position <= state.length
       /\ (pc = "loop" /\ pc' = "done") =>
              /\ docs'["d"] # 0
              /\ heap'[docs'["d"]].type_ \in NodeTypes
       /\ pc' \in {"loop", "done"} => exception' = NullPtr]_vars

\* Load has returned for a text that mixes colon, dash and comment marker and
\* has no final newline
C4_Witness ==
    /\ pc = "done"
    /\ docs["d"] # 0
    /\ state.length > 0
    /\ state.content[state.length] # "\n"
    /\ \E i, j \in 1..state.length : state.content[i] = ":" /\ state.content[j] = "#"

\* the same structure with each key side-node reduced to its text
RECURSIVE NodeShape(_, _)
NodeShape(h, n) ==
    [type_ |-> h[n].type_, tag_ |-> h[n].tag_, scalar_value_ |-> h[n].scalar_value_,
     key |-> IF h[n].map_key_ = 0 THEN NullPtr ELSE h[h[n].map_key_].scalar_value_,
     children |-> [i \in 1..Len(h[n].children) |-> NodeShape(h, h[n].children[i])]]

\* the nodes that have been allocated and not deleted
LiveNodes(h) == { n \in 1..Len(h) : h[n].type_ # "freed" }

\* the positions of the children of n that carry the key text key
KeyedAt(h, n, key) ==
    { i \in 1..Len(h[n].children) :
        LET mk == h[h[n].children[i]].map_key_
        IN mk # 0 /\ h[mk].scalar_value_ = <<key>> }

\* the children of n that carry no key, in child order
UnkeyedChildren(h, n) == SelectSeq(h[n].children, LAMBDA c : h[c].map_key_ = 0)

\* the text as_string gives for the node a lookup returned
StringOf(r) == as_string(r.heap, r.id)

\* flat "key: value" lines: key text, value text and the value's decimal value
FlatEntries ==
    { [key |-> <<"a">>, value |-> <<"x">>, number |-> FALSE, int |-> 0],
      [key |-> <<"b">>, value |-> <<"5">>, number |-> TRUE, int |-> 5] }

FlatSeqs ==
    { es \in LineSeqs(FlatEntries, MaxLines) :
        /\ Len(es) >= 1
        /\ \A i, j \in 1..Len(es) : i # j => es[i].key # es[j].key }

RECURSIVE FlatText(_, _)
FlatText(es, i) ==
    IF i > Len(es) THEN <<>>
    ELSE es[i].key \o <<":", " ">> \o es[i].value \o <<"\n">> \o FlatText(es, i + 1)

\* C1: for an input of n flat "key: value" lines with distinct keys, each
\* ending in a newline, the document Load returns has exactly n top-level
\* entries and, for every line including the last, root[key].as_string() is
\* the line's value text and root[key].as_int() its decimal value.
C1_FlatMappingLoaded ==
    \A es \in FlatSeqs :
        (pc = "done" /\ state.content = FlatText(es, 1)) =>
            /\ Len(heap[docs["d"]].children) = Len(es)
            /\ \A i \in 1..Len(es) :
                   LET r == IndexKey(heap, docs["d"], es[i].key)
                   IN /\ StringOf(r) = es[i].value
                      /\ es[i].number => as_int(r.heap, r.id) = es[i].int

\* C2: the node of a line is a child of the node of the nearest preceding
\* line with strictly smaller indentation: for "a:" followed by a more
\* indented "b: x", root["a"]["b"].as_string() is "x", and a later line
\* "b: 5" at the opener's indentation is a sibling of the opener.
C2_NestedUnderOpener ==
    LET nested == <<"a", ":", "\n", " ", " ", "b", ":", " ", "x", "\n">>
        sibling == <<"b", ":", " ", "5", "\n">>
        a == IndexKey(heap, docs["d"], <<"a">>)
        ab == IndexKey(a.heap, a.id, <<"b">>)
        b == IndexKey(heap, docs["d"], <<"b">>)
    IN /\ (pc = "done" /\ state.content \in {nested, nested \o sibling}) =>
              StringOf(ab) = <<"x">>
       /\ (pc = "done" /\ state.content = nested \o sibling) =>
              /\ StringOf(b) = <<"5">>
              /\ Len(heap[docs["d"]].children) = 2
              /\ Len(a.heap[a.id].children) = 1

\* the value of the i-th item of the sequence texts: x, y, x, ...
ItemValue(i) == IF i % 2 = 1 THEN <<"x">> ELSE <<"y">>

\* "a:" followed by n more-indented lines "- x", "- y", "- x", ...
RECURSIVE SequenceText(_)
SequenceText(n) ==
    IF n = 0 THEN <<"a", ":", "\n">>
    ELSE SequenceText(n - 1) \o <<" ", " ", "-", " ">> \o ItemValue(n) \o <<"\n">>

\* C3: for "a:" followed by n more-indented lines "- v_1" ... "- v_n",
\* root["a"].size() is n and root["a"][i].as_string() is v_(i+1) for every
\* i in 0..n-1, in input order.
C3_SequenceUnderKey ==
    \A n \in 1..(MaxLines - 1) :
        (pc = "done" /\ state.content = SequenceText(n)) =>
            LET a == IndexKey(heap, docs["d"], <<"a">>)
            IN /\ size(a.heap, a.id) = n
               /\ \A i \in 0..(n - 1) :
                      StringOf(IndexAt(a.heap, a.id, i)) = ItemValue(i + 1)

\* the key texts carried by the children of n
TopLevelKeys(h, n) ==
    { h[h[c].map_key_].scalar_value_[1] :
        c \in { h[n].children[i] : i \in { j \in 1..Len(h[n].children) :
                  /\ h[h[n].children[j]].map_key_ # 0
                  /\ h[h[h[n].children[j]].map_key_].scalar_value_ # NullPtr } } }

\* a lookup of a key that n does not carry gives a Null node, HasKey says
\* no, and every lookup chained on the Null node gives a Null node again
MissingKeyIsNull(h, n, k) ==
    LET r == IndexKey(h, n, k)
    IN /\ IsNull(r.heap, r.id)
       /\ ~HasKey(h, n, k)
       /\ \A k2 \in Keys :
              LET r2 == IndexKey(r.heap, r.id, k2)
              IN /\ IsNull(r2.heap, r2.id)
                 /\ ~HasKey(r.heap, r.id, k2)
                 /\ \A k3 \in Keys : LET r3 == IndexKey(r2.heap, r2.id, k3)
                                     IN IsNull(r3.heap, r3.id)
       /\ \A i \in Indexes : LET r2 == IndexAt(r.heap, r.id, i)
                             IN IsNull(r2.heap, r2.id)

\* C5: for the document d Load returns (and for the tree it was copied from)
\* and every key k not among the keys of the top-level entries, d[k] is a
\* Null node and d.HasKey(k) is false; keyed and positional lookups chained
\* on a Null result are Null again, and no Exception is raised.
C5_MissingKeyIsNull ==
    pc = "done" =>
        /\ exception = NullPtr
        /\ \A n \in {docs["d"], state.root} :
               \A k \in Keys \ TopLevelKeys(heap, n) : MissingKeyIsNull(heap, n, k)

\* Load has returned a document whose tree has a top-level entry with a key
\* and a key of Keys is looked up that no entry carries
C5_Witness ==
    /\ pc = "done"
    /\ Len(heap[docs["d"]].children) >= 2
    /\ TopLevelKeys(heap, state.root) # {}
    /\ Keys \ TopLevelKeys(heap, state.root) # {}
    /\ IsNull(IndexKey(heap, docs["d"], <<"z">>).heap, IndexKey(heap, docs["d"], <<"z">>).id)

\* C7: the copy Load returns is structurally equal to the tree it built: same
\* kind, tag, text, the same children in the same order, every keyed child
\* keeps its key, so HasKey(k) and operator[](k) answer alike on both.
C7_CopyKeepsStructure ==
    pc = "done" =>
        /\ NodeShape(heap, docs["d"]) = NodeShape(heap, state.root)
        /\ \A k \in Keys :
               /\ HasKey(heap, docs["d"], k) = HasKey(heap, state.root, k)
               /\ LET r1 == IndexKey(heap, docs["d"], k)
                      r2 == IndexKey(heap, state.root, k)
                  IN r1.heap[r1.id].type_ = r2.heap[r2.id].type_

\* the lines of a text: the pieces between its newlines
RECURSIVE SplitLines(_)
SplitLines(s) ==
    IF \A i \in 1..Len(s) : s[i] # "\n" THEN <<s>>
    ELSE LET i == CHOOSE j \in 1..Len(s) :
                      s[j] = "\n" /\ \A m \in 1..(j - 1) : s[m] # "\n"
         IN <<SubSeq(s, 1, i - 1)>> \o SplitLines(SubSeq(s, i + 1, Len(s)))

\* a blank line (empty or white space only) or a comment line (first
\* non-blank character is the comment marker)
IsBlankLine(l) == \A i \in 1..Len(l) : IsSpace(l[i])
IsCommentLine(l) ==
    \E i \in 1..Len(l) : l[i] = "#" /\ \A m \in 1..(i - 1) : IsSpace(l[m])
IsEntryLine(l) == ~IsBlankLine(l) /\ ~IsCommentLine(l)

\* the positions of the blank and comment lines that stand between two entries
InsertedAt(ls) ==
    { i \in 1..Len(ls) :
        /\ ~IsEntryLine(ls[i])
        /\ \E j \in 1..(i - 1) : IsEntryLine(ls[j])
        /\ \E j \in (i + 1)..Len(ls) : IsEntryLine(ls[j]) }

\* the lines with those blank and comment lines removed
RECURSIVE WithoutInserted(_, _)
WithoutInserted(ls, i) ==
    IF i > Len(ls) THEN <<>>
    ELSE (IF i \in InsertedAt(ls) THEN <<>> ELSE <<ls[i]>>) \o WithoutInserted(ls, i + 1)

StrippedText(s) == JoinLines(WithoutInserted(SplitLines(s), 1), 1)

RECURSIVE Reach(_, _)
Reach(h, n) ==
    {n} \cup (IF h[n].map_key_ = 0 THEN {} ELSE Reach(h, h[n].map_key_))
        \cup UNION { Reach(h, h[n].children[i]) : i \in 1..Len(h[n].children) }

\* no two Node objects of the caller have a node in common
HeldDisjoint(h, dd) ==
    \A s, t \in Slots :
        (s # t /\ dd[s] # 0 /\ dd[t] # 0) => Reach(h, dd[s]) \cap Reach(h, dd[t]) = {}

PositionalLookup(h, n) ==
    LET unkeyed == UnkeyedChildren(h, n)
    IN /\ size(h, n) = Len(unkeyed)
       /\ \A i \in 0..(Len(unkeyed) + 2) :
              LET r == IndexAt(h, n, i)
              IN IF i < Len(unkeyed)
                 THEN NodeValue(r.heap, r.id) = NodeValue(h, unkeyed[i + 1])
                 ELSE r.heap[r.id] = NodeCtor(NullPtr)

\* push_back on the node n appends: size() grows by one, the earlier
\* positions keep their children and the new last position holds the value
PushBackAppends(h1, h2, n, op) ==
    LET before == UnkeyedChildren(h1, n)
        after == UnkeyedChildren(h2, n)
    IN /\ size(h2, n) = size(h1, n) + 1
       /\ Len(after) = Len(before) + 1
       /\ \A i \in 1..Len(before) :
              after[i] = before[i] /\ NodeValue(h2, after[i]) = NodeValue(h1, before[i])
       /\ op.op = "push_back_str" =>
              /\ h2[after[Len(after)]].type_ = "Type_Scalar"
              /\ h2[after[Len(after)]].scalar_value_ = <<op.arg>>
       /\ op.op = "push_back_node" =>
              /\ h2[after[Len(after)]].type_ = h1[docs[op.src]].type_
              /\ h2[after[Len(after)]].scalar_value_ = h1[docs[op.src]].scalar_value_

\* C9: for every node n, size() is the number of n's children without a key,
\* n[i] for i < size() is a copy of the i-th unkeyed child in insertion
\* order, n[i] for i >= size() is a Null node and nothing is raised; and
\* push_back appends at the end, raises size() by exactly one and leaves the
\* earlier positions unchanged.
C9_PositionalIndexing ==
    [][/\ \A n \in LiveNodes(heap') : PositionalLookup(heap', n)
       /\ exception' = NullPtr
       /\ last'.op \in {"push_back_str", "push_back_node"} =>
              PushBackAppends(heap, heap', docs[last'.target], last')]_vars

\* a push_back has just been done on a Node that had unkeyed children before
\* and an index past the end is within the looked-up range
C9_Witness ==
    /\ last.op \in {"push_back_str", "push_back_node"}
    /\ size(heap, docs[last.target]) >= 3
    /\ size(heap, docs[last.target]) \in Indexes
    /\ IsNull(IndexAt(heap, docs[last.target], size(heap, docs[last.target])).heap,
              IndexAt(heap, docs[last.target], size(heap, docs[last.target])).id)

\* the smallest element of a non-empty set of numbers
Least(S) == CHOOSE x \in S : \A y \in S : x <= y

\* C10: for every node n and key k, n.HasKey(k) is true exactly when n[k] is
\* not a Null node; when children carry the key k, n[k] is (a copy of) the
\* first of them in child order.
C10_HasKeyIffLookup ==
    \A n \in LiveNodes(heap) : \A k \in Keys :
        LET r == IndexKey(heap, n, k)
            at == KeyedAt(heap, n, k)
        IN /\ HasKey(heap, n, k) <=> ~IsNull(r.heap, r.id)
           /\ HasKey(heap, n, k) <=> at # {}
           /\ at # {} =>
                  LET first == heap[n].children[Least(at)]
                  IN /\ r.heap[r.id].type_ = heap[first].type_
                     /\ r.heap[r.id].scalar_value_ = heap[first].scalar_value_
                     /\ Len(r.heap[r.id].children) = Len(heap[first].children)

\* a node has two children with the same key and different texts, and the
\* caller holds the result of a key lookup
C10_Witness ==
    /\ \E n \in LiveNodes(heap) : \E k \in Keys :
           /\ Cardinality(KeyedAt(heap, n, k)) >= 2
           /\ \E i, j \in KeyedAt(heap, n, k) :
                  heap[heap[n].children[i]].scalar_value_
                      # heap[heap[n].children[j]].scalar_value_
           /\ HasKey(heap, n, k)
    /\ \E s \in Slots : made[s].op = "index_key"

\* C11: for every node whose kind is not Scalar (Null, Sequence or Mapping,
\* the Mapping nodes made for "key:" openers included), as_string() is the
\* empty string, as_int() is 0 and as_bool() is false.
C11_NonScalarReadsEmpty ==
    \A n \in LiveNodes(heap) :
        ~IsScalar(heap, n) =>
            /\ as_string(heap, n) = <<>>
            /\ as_int(heap, n) = 0
            /\ as_bool(heap, n) = FALSE

\* the texts for which the contract makes as_bool() true
TrueTexts == { <<"t", "r", "u", "e">>, <<"y", "e", "s">>, <<"1">> }

\* C12: for a Scalar node with text t, as_bool() is true if and only if t is
\* exactly "true", "yes" or "1"; every other text ("True", "YES", "5", "on",
\* the empty text) gives false.
C12_AsBoolExactTexts ==
    \A n \in LiveNodes(heap) :
        (IsScalar(heap, n) /\ heap[n].scalar_value_ # NullPtr) =>
            /\ as_bool(heap, n) <=> (as_string(heap, n) \in TrueTexts)
            /\ as_string(heap, n) \in { <<"T", "r", "u", "e">>, <<"Y", "E", "S">>, <<"5">>,
                                        <<"o", "n">>, <<>> } => ~as_bool(heap, n)

\* the caller holds a Scalar "True" whose child is the Scalar "true": the
\* first reads false, the second true
C12_Witness ==
    \E s \in Held :
        /\ IsScalar(heap, docs[s])
        /\ as_string(heap, docs[s]) = <<"T", "r", "u", "e">>
        /\ ~as_bool(heap, docs[s])
        /\ \E i \in 1..Len(heap[docs[s]].children) :
               LET c == heap[docs[s]].children[i]
               IN /\ IsScalar(heap, c)
                  /\ as_string(heap, c) = <<"t", "r", "u", "e">>
                  /\ as_bool(heap, c)

\* the text an assignment of value is to leave in the node
AssignedText(kind, value) ==
    CASE kind = "assign_str" -> value
      [] kind = "assign_bool" -> IF value THEN <<"t", "r", "u", "e">>
                                 ELSE <<"f", "a", "l", "s", "e">>
      [] kind = "assign_int" -> CASE value = 0 -> <<"0">>
                                  [] value = 5 -> <<"5">>
                                  [] value = -12 -> <<"-", "1", "2">>

AssignOps == {"assign_str", "assign_int", "assign_bool"}

\* C13: after assigning a string, an int or a bool to a node n, whatever n
\* held before, n is a Scalar whose text is the assigned value, n.size() is
\* 0, n has no children and no tag.
C13_AssignReplaces ==
    [][last'.op \in AssignOps =>
          LET n == docs[last'.target]
          IN /\ IsScalar(heap', n)
             /\ heap'[n].scalar_value_ = <<AssignedText(last'.op, last'.arg)>>
             /\ size(heap', n) = 0
             /\ heap'[n].children = <<>>
             /\ heap'[n].tag_ = NullPtr]_vars

\* the document Load returned, a copy of a root with two children or more, has
\* been assigned to as the caller's first operation
C13_Witness ==
    /\ last.op \in AssignOps
    /\ last.target = "d"
    /\ nops = 1
    /\ Len(heap[state.root].children) >= 2
    /\ IsScalar(heap, docs["d"])
    /\ heap[docs["d"]].children = <<>>

\* the nodes that have been attached as a child of some node
AttachedNodes(h) ==
    { c \in LiveNodes(h) :
          \E n \in LiveNodes(h) : \E i \in 1..Len(h[n].children) : h[n].children[i] = c }

\* the number of lines of the text that are neither blank nor a comment
EntryLineCount(content) ==
    Cardinality({ i \in 1..Len(SplitLines(content)) : IsEntryLine(SplitLines(content)[i]) })

\* C18: Load processes the input until it is exhausted: every physical line
\* that is neither blank nor a comment, the final line included whether or
\* not it ends with a newline, causes exactly one node to be created and
\* attached, so when the line loop has ended the number of attached nodes
\* equals the number of such lines.
C18_OneNodePerEntryLine ==
    (pc = "loop" /\ state.position >= state.length) =>
        Cardinality(AttachedNodes(heap)) = EntryLineCount(state.content)

\* the position where the physical line that holds position p starts
LineStartOf(content, p) ==
    LET breaks == { i \in 1..p : content[i] = "\n" }
    IN IF breaks = {} THEN 0 ELSE CHOOSE i \in breaks : \A j \in breaks : j <= i

\* the indentation of the line that starts at position i: one per leading
\* space, four per leading tab, in the order encountered
RECURSIVE LeadingIndent(_, _)
LeadingIndent(content, i) ==
    IF CharAt(content, i) = " " THEN 1 + LeadingIndent(content, i + 1)
    ELSE IF CharAt(content, i) = "\t" THEN 4 + LeadingIndent(content, i + 1)
    ELSE 0

\* C19: for every processed line, the indentation value Load passes to
\* ProcessLine is the indentation of that same line: the number of its
\* leading spaces plus four times the number of its leading tabs.
C19_IndentOfSameLine ==
    [][(last'.op = "line" /\ last'.arg.processed) =>
          last'.arg.indent
              = LeadingIndent(state.content, LineStartOf(state.content, state.position))]_vars

\* the nodes reachable from n through child links only
RECURSIVE ChildReach(_, _)
ChildReach(h, n) ==
    {n} \cup UNION { ChildReach(h, h[n].children[i]) : i \in 1..Len(h[n].children) }

\* C20: after a line has been processed, the current node is the root or a
\* Mapping node that is reachable from the root through child links, and
\* every node the parser has attached is reachable from the root through
\* child links (never attached under a key side-node or a detached node).
C20_CurrentUnderRoot ==
    (pc = "loop" /\ last.op = "line") =>
        /\ state.current \in ChildReach(heap, state.root)
        /\ state.current = state.root \/ IsMap(heap, state.current)
        /\ AttachedNodes(heap) \subseteq ChildReach(heap, state.root)

\* ------------------------------------------------------------------------
\* Parser::LoadFile
\* ------------------------------------------------------------------------
\* Exception::Exception(const char* msg)
Exception(msg) == <<msg>>

\* the files LoadFile is given
FileInputs ==
    NodeInputs \cup
    { <<"a", ":", " ", "x", "\n", "b", ":", " ", "5", "\n">>,
      <<"a", ":", "\n", "b", " ", "x", "\n", "z">> }

\* Parser::LoadFile up to its call of Load: fopen may fail, malloc may fail,
\* fread delivers read bytes of the file's size
LoadFileCall(bytes, opens, allocates, read) ==
    /\ pc = "idle"
    /\ last' = Op("LoadFile", "", "", 0)
    /\ IF ~opens
       THEN /\ io' = [NoFile EXCEPT !.bytes = bytes]
            /\ exception' = Exception("Failed to open file")
            /\ pc' = "raised"
            /\ UNCHANGED <<state, heap>>
       ELSE IF ~allocates
       THEN /\ io' = [bytes |-> bytes, fp |-> "closed", size |-> Len(bytes),
                      content |-> FALSE, read |-> 0]
            /\ exception' = Exception("Failed to allocate memory")
            /\ pc' = "raised"
            /\ UNCHANGED <<state, heap>>
       ELSE LET content == SubSeq(bytes, 1, read)
                b == LoadBegin(heap, content)
            IN /\ io' = [bytes |-> bytes, fp |-> "closed", size |-> Len(bytes),
                         content |-> TRUE, read |-> read]
               /\ state' = b.state
               /\ heap' = b.heap
               /\ pc' = "loop"
               /\ UNCHANGED exception
    /\ line_buffer' = <<>>
    /\ UNCHANGED <<parserVars, docs, made, nops>>

NextFile ==
    \/ pc = "idle" /\ \E bytes \in FileInputs, opens, allocates \in BOOLEAN :
                          \E read \in 0..Len(bytes) :
                              LoadFileCall(bytes, opens, allocates, read)
    \/ LoadIter
    \/ LoadReturn

SpecFile == Init /\ [][NextFile]_vars

\* LoadFile has been called
ViaLoadFile == io.fp # "none" \/ (pc = "raised" /\ last.op = "LoadFile")

\* C14: LoadFile raises an error carrying a message when the file cannot be
\* opened and raises an error when allocating the buffer fails; in both
\* cases Load is not run, no tree is returned and a file handle that was
\* opened is closed before the error propagates. In every other case
\* LoadFile returns exactly the tree Load returns for the file's contents.
C14_LoadFileErrorsOrLoads ==
    ViaLoadFile =>
        /\ (io.fp = "none" \/ ~io.content) =>
               /\ pc = "raised"
               /\ exception # NullPtr /\ exception[1] # ""
               /\ heap = <<>> /\ docs["d"] = 0
               /\ io.fp \in {"none", "closed"}
        /\ pc = "raised" => (io.fp = "none" \/ ~io.content)
        /\ pc = "done" =>
               LET r == Load(<<>>, io.bytes)
               IN NodeValue(heap, docs["d"]) = NodeValue(r.heap, r.id)

\* C15: LoadFile raises an error when reading the file returns fewer bytes
\* than the file's size; it does not go on to parse the partial contents
\* and return a tree.
C15_ShortReadRaises ==
    (ViaLoadFile /\ io.content /\ io.read < io.size) =>
        /\ pc = "raised"
        /\ exception # NullPtr
        /\ docs["d"] = 0

\* ------------------------------------------------------------------------
\* YAMLConfigParser
\* ------------------------------------------------------------------------
ConfigLineBufferSize == 4096
ConfigKeyBufferSize == 256
ConfigValueBufferSize == 1024

\* the literal texts ParseContent compares with
Str_modegroups == <<"m", "o", "d", "e", "g", "r", "o", "u", "p", "s", ":">>
Str_plugins == <<"p", "l", "u", "g", "i", "n", "s", ":">>
Str_required_plugins == <<"r", "e", "q", "u", "i", "r", "e", "d", "_", "p", "l", "u", "g", "i", "n", "s">>
Str_dependencies == <<"d", "e", "p", "e", "n", "d", "e", "n", "c", "i", "e", "s">>
Str_dash == <<"-", " ">>
Str_name == <<"n", "a", "m", "e">>
Str_description == <<"d", "e", "s", "c", "r", "i", "p", "t", "i", "o", "n">>
Str_settings == <<"s", "e", "t", "t", "i", "n", "g", "s">>
Str_key == <<"k", "e", "y">>
Str_value == <<"v", "a", "l", "u", "e">>
Str_file == <<"f", "i", "l", "e">>
Str_enabled == <<"e", "n", "a", "b", "l", "e", "d">>
Str_mode == <<"m", "o", "d", "e">>
Str_true == <<"t", "r", "u", "e">>
Str_yes == <<"y", "e", "s">>
Str_1 == <<"1">>

\* the characters of the model in the order of their codes
CharOrder ==
    <<"\t", "\n", "\r", " ", "\"", "#", "'", "-", "0", "1", "2", "5", ":",
      "E", "S", "T", "Y", "\\", "_", "a", "b", "c", "d", "e", "f", "g", "i",
      "k", "l", "m", "n", "o", "p", "q", "r", "s", "t", "u", "v", "x", "y", "z">>
CharCode(c) == IF c = NUL THEN 0 ELSE CHOOSE i \in 1..Len(CharOrder) : CharOrder[i] = c

\* std::string operator< : the comparison std::map orders its keys by
RECURSIVE StrLess(_, _)
StrLess(a, b) ==
    IF b = <<>> THEN FALSE
    ELSE IF a = <<>> THEN TRUE
    ELSE IF Head(a) # Head(b) THEN CharCode(Head(a)) < CharCode(Head(b))
    ELSE StrLess(Tail(a), Tail(b))

\* strncmp(s, prefix, strlen(prefix)) == 0
StrNCmpPrefix(s, prefix) == Len(s) >= Len(prefix) /\ SubSeq(s, 1, Len(prefix)) = prefix

\* strstr(s, sub): the offset of the first occurrence of sub in s, -1 for nullptr
StrStr(s, sub) ==
    LET at == { i \in 0..(Len(s) - Len(sub)) : SubSeq(s, i + 1, i + Len(sub)) = sub }
    IN IF at = {} THEN -1 ELSE CHOOSE i \in at : \A j \in at : i <= j

\* static SkipWhitespace(const char*): the offset of the first character of
\* str at or after p that is neither a space nor a tab
RECURSIVE ConfigSkipWhitespace(_, _)
ConfigSkipWhitespace(str, p) ==
    IF CharAt(str, p) = " " \/ CharAt(str, p) = "\t" THEN ConfigSkipWhitespace(str, p + 1)
    ELSE p

\* static FindLineEnd: the offset of the next line feed or of the end
RECURSIVE FindLineEnd(_, _)
FindLineEnd(str, p) ==
    IF CharAt(str, p) # NUL /\ CharAt(str, p) # "\n" THEN FindLineEnd(str, p + 1) ELSE p

\* static TrimTrailingWhitespace(char*)
RECURSIVE ConfigTrimTrailingWhitespace(_)
ConfigTrimTrailingWhitespace(str) ==
    IF Len(str) > 0 /\ str[Len(str)] \in {" ", "\t", "\r"}
    THEN ConfigTrimTrailingWhitespace(SubSeq(str, 1, Len(str) - 1))
    ELSE str

\* static IsCommentLine
ConfigIsCommentLine(line) == CharAt(line, ConfigSkipWhitespace(line, 0)) = "#"

\* static IsEmptyLine
IsEmptyLine(line) ==
    LET c == CharAt(line, ConfigSkipWhitespace(line, 0)) IN c = NUL \/ c = "\n"

\* static GetIndentLevel
RECURSIVE GetIndentLevel(_, _)
GetIndentLevel(line, p) == IF CharAt(line, p) = " " THEN 1 + GetIndentLevel(line, p + 1) ELSE 0

\* the loop that copies a quoted key or value: characters up to the closing
\* quote, a backslash making the next character literal
RECURSIVE CopyQuoted(_, _, _, _, _)
CopyQuoted(str, p, quote, buf, bufferSize) ==
    IF CharAt(str, p) # NUL /\ CharAt(str, p) # quote /\ Len(buf) < bufferSize - 1
    THEN LET p1 == IF CharAt(str, p) = "\\" /\ CharAt(str, p + 1) # NUL THEN p + 1 ELSE p
         IN CopyQuoted(str, p1 + 1, quote, Append(buf, CharAt(str, p1)), bufferSize)
    ELSE [buffer |-> buf, p |-> p]

\* the loop that copies an unquoted key
RECURSIVE CopyKey(_, _, _, _)
CopyKey(str, p, buf, bufferSize) ==
    IF CharAt(str, p) # NUL /\ CharAt(str, p) # ":" /\ ~IsSpace(CharAt(str, p))
       /\ Len(buf) < bufferSize - 1
    THEN CopyKey(str, p + 1, Append(buf, CharAt(str, p)), bufferSize)
    ELSE [buffer |-> buf, p |-> p]

\* the loop that copies an unquoted value or a sequence item: characters up
\* to one of the stop characters
RECURSIVE CopyUntil(_, _, _, _, _)
CopyUntil(str, p, stops, buf, bufferSize) ==
    IF CharAt(str, p) # NUL /\ CharAt(str, p) \notin stops /\ Len(buf) < bufferSize - 1
    THEN CopyUntil(str, p + 1, stops, Append(buf, CharAt(str, p)), bufferSize)
    ELSE [buffer |-> buf, p |-> p]

\* static ExtractKey: the key buffer and the returned offset (-1 for
\* nullptr, which leaves the buffer as it was)
ExtractKey(line, bufferSize) ==
    LET p == ConfigSkipWhitespace(line, 0)
    IN IF CharAt(line, p) = NUL THEN [buffer |-> <<>>, p |-> -1]
       ELSE IF CharAt(line, p) = "\"" \/ CharAt(line, p) = "'"
       THEN CopyQuoted(line, p + 1, CharAt(line, p), <<>>, bufferSize)
       ELSE CopyKey(line, p, <<>>, bufferSize)

\* static ExtractValue: the value buffer
ExtractValue(line, keyEnd, bufferSize) ==
    LET p0 == IF CharAt(line, keyEnd) = ":" THEN keyEnd + 1 ELSE keyEnd
        p == ConfigSkipWhitespace(line, p0)
    IN IF CharAt(line, p) = NUL \/ CharAt(line, p) = "#" THEN <<>>
       ELSE IF CharAt(line, p) = "\"" \/ CharAt(line, p) = "'"
       THEN CopyQuoted(line, p + 1, CharAt(line, p), <<>>, bufferSize).buffer
       ELSE ConfigTrimTrailingWhitespace(
                CopyUntil(line, p, {"#", "\n"}, <<>>, bufferSize).buffer)

\* static IsSequenceItem: whether the line is one, and the value buffer
ConfigIsSequenceItem(line, bufferSize) ==
    LET p == ConfigSkipWhitespace(line, 0)
    IN IF CharAt(line, p) # "-" THEN [is |-> FALSE, value |-> <<>>]
       ELSE [is |-> TRUE,
             value |-> ConfigTrimTrailingWhitespace(
                           CopyUntil(line, ConfigSkipWhitespace(line, p + 1), {"\n"},
                                     <<>>, bufferSize).buffer)]

\* std::map<std::string, std::string>: the entries in key order

\* map[key] = value
RECURSIVE MapSet(_, _, _)
MapSet(map, key, value) ==
    IF map = <<>> THEN <<[key |-> key, value |-> value]>>
    ELSE IF Head(map).key = key THEN <<[key |-> key, value |-> value]>> \o Tail(map)
    ELSE IF StrLess(key, Head(map).key) THEN <<[key |-> key, value |-> value]>> \o map
    ELSE <<Head(map)>> \o MapSet(Tail(map), key, value)

\* map.rbegin()->second = value
MapSetLast(map, value) == [map EXCEPT ![Len(map)].value = value]

\* the locals of ParseContent with the two record lists it appends to;
\* currentGroup and currentPlugin are positions in the lists, 0 for nullptr
ParseLocals(groups, plugins) ==
    [groups |-> groups, plugins |-> plugins, currentGroup |-> 0, currentPlugin |-> 0,
     sectionIndent |-> -1]

\* ParseContent: a line that is a sequence item
ParseSequenceItem(ps, lineContent, indent, seqValue) ==
    IF ps.currentGroup # 0 /\ indent = ps.sectionIndent + 2
    THEN LET g == ps.groups[ps.currentGroup]
         IN IF \/ StrStr(lineContent, Str_required_plugins) # -1
               \/ (Len(g.required_plugins) > 0 /\ StrStr(lineContent, Str_dash) = 0)
            THEN [ps EXCEPT !.groups[ps.currentGroup].required_plugins = Append(@, seqValue)]
            ELSE IF StrStr(lineContent, Str_dependencies) # -1 \/ Len(g.dependencies) > 0
            THEN [ps EXCEPT !.groups[ps.currentGroup].dependencies = Append(@, seqValue)]
            ELSE ps
    ELSE ps

\* ParseContent: a line that is a key with a value
ParseKeyValue(ps, keyBuffer, valueBuffer) ==
    IF keyBuffer = Str_name
    THEN LET newGroup == [name |-> valueBuffer, description |-> <<>>,
                          required_plugins |-> <<>>, settings |-> <<>>,
                          dependencies |-> <<>>]
         IN [ps EXCEPT !.groups = Append(@, newGroup),
                       !.currentGroup = Len(ps.groups) + 1,
                       !.currentPlugin = 0]
    ELSE IF keyBuffer = Str_description /\ ps.currentGroup # 0
    THEN [ps EXCEPT !.groups[ps.currentGroup].description = valueBuffer]
    ELSE IF keyBuffer \in {Str_settings, Str_key, Str_value} /\ ps.currentGroup # 0
    THEN ps
    ELSE IF keyBuffer = Str_file
    THEN LET newPlugin == [file |-> valueBuffer, name |-> valueBuffer, enabled |-> TRUE,
                           mode |-> <<>>, settings |-> <<>>]
         IN [ps EXCEPT !.plugins = Append(@, newPlugin),
                       !.currentPlugin = Len(ps.plugins) + 1,
                       !.currentGroup = 0]
    ELSE IF keyBuffer = Str_enabled /\ ps.currentPlugin # 0
    THEN [ps EXCEPT !.plugins[ps.currentPlugin].enabled =
                        valueBuffer \in {Str_true, Str_yes, Str_1}]
    ELSE IF keyBuffer = Str_mode /\ ps.currentPlugin # 0
    THEN [ps EXCEPT !.plugins[ps.currentPlugin].mode = valueBuffer]
    ELSE IF keyBuffer = Str_key /\ ps.currentPlugin # 0
    THEN [ps EXCEPT !.plugins[ps.currentPlugin].settings = MapSet(@, valueBuffer, <<>>)]
    ELSE IF keyBuffer = Str_value /\ ps.currentPlugin # 0
            /\ ps.plugins[ps.currentPlugin].settings # <<>>
    THEN [ps EXCEPT !.plugins[ps.currentPlugin].settings = MapSetLast(@, valueBuffer)]
    ELSE ps

\* ParseContent: the body of the line loop for a line that is neither
\* empty nor a comment
ParseLine(ps, lineBuffer) ==
    LET indent == GetIndentLevel(lineBuffer, 0)
        lineContent == StrFrom(lineBuffer, ConfigSkipWhitespace(lineBuffer, 0))
    IN IF StrNCmpPrefix(lineContent, Str_modegroups) \/ StrNCmpPrefix(lineContent, Str_plugins)
       THEN [ps EXCEPT !.sectionIndent = indent, !.currentGroup = 0, !.currentPlugin = 0]
       ELSE IF ps.sectionIndent >= 0 /\ indent > ps.sectionIndent
       THEN LET seq == ConfigIsSequenceItem(lineContent, ConfigValueBufferSize)
                k == ExtractKey(lineContent, ConfigKeyBufferSize)
            IN IF seq.is THEN ParseSequenceItem(ps, lineContent, indent, seq.value)
               ELSE IF k.buffer = <<>> THEN ps
               ELSE ParseKeyValue(ps, k.buffer,
                                  ExtractValue(lineContent, k.p, ConfigValueBufferSize))
       ELSE ps

\* ParseContent: the line loop from the offset lineStart
RECURSIVE ParseLines(_, _, _)
ParseLines(content, lineStart, ps) ==
    IF CharAt(content, lineStart) = NUL THEN ps
    ELSE LET lineEnd == FindLineEnd(content, lineStart)
             lineBuffer == StrNCpy(SubSeq(content, lineStart + 1, lineEnd),
                                   ConfigLineBufferSize - 1)
             next == IF CharAt(content, lineEnd) = "\n" THEN lineEnd + 1 ELSE lineEnd
         IN IF IsEmptyLine(lineBuffer) \/ ConfigIsCommentLine(lineBuffer)
            THEN ParseLines(content, next, ps)
            ELSE ParseLines(content, next, ParseLine(ps, lineBuffer))

\* YAMLConfigParser::ParseContent on the parser object self: the object
\* after the call, the value returned and the text left in error
ParseContent(self, content) ==
    IF content = NullPtr
    THEN [self |-> [self EXCEPT !.parse_error_ = TRUE], ret |-> FALSE,
          error |-> "Null content provided"]
    ELSE LET ps == ParseLines(content[1], 0, ParseLocals(self.mode_groups_, self.plugins_))
         IN [self |-> [self EXCEPT !.mode_groups_ = ps.groups, !.plugins_ = ps.plugins],
             ret |-> TRUE, error |-> ""]

ParserClear_KeepRecords(self) == [self EXCEPT !.parse_error_ = FALSE, !.last_error_ = <<>>]

\* YAMLConfigParser::Clear
ParserClear(self) ==
    [mode_groups_ |-> <<>>, plugins_ |-> <<>>, parse_error_ |-> FALSE, last_error_ |-> <<>>]

\* YAMLConfigParser::YAMLConfigParser
ParserCtor ==
    [mode_groups_ |-> <<>>, plugins_ |-> <<>>, parse_error_ |-> FALSE, last_error_ |-> <<>>]

\* YAMLConfigParser::LoadFromString
LoadFromString(self, content) == ParseContent(ParserClear(self), content)

\* YAMLConfigParser::LoadModeGroupConfig on a file of the given bytes: fopen
\* may fail, malloc may fail, fread delivers read bytes
LoadModeGroupConfig(self, bytes, opens, allocates, read) ==
    LET s0 == ParserClear(self)
    IN IF ~opens
       THEN [self |-> [s0 EXCEPT !.parse_error_ = TRUE], ret |-> FALSE,
             error |-> "Could not open file: %s"]
       ELSE IF ~allocates
       THEN [self |-> [s0 EXCEPT !.parse_error_ = TRUE], ret |-> FALSE,
             error |-> "Memory allocation failed"]
       ELSE ParseContent(s0, StrDup(SubSeq(bytes, 1, read)))

ShouldLoadPlugin_LastEntry(plugins, filename, mode) ==
    LET at == { i \in 1..Len(plugins) : plugins[i].file = filename[1] }
    IN IF filename = NullPtr \/ filename[1] = <<>> \/ at = {} THEN TRUE
       ELSE LET plugin == plugins[CHOOSE i \in at : \A j \in at : j <= i]
            IN IF mode = NullPtr \/ mode[1] = <<>> THEN plugin.enabled
               ELSE IF ~plugin.enabled THEN FALSE
               ELSE IF plugin.mode = <<>> THEN TRUE
               ELSE plugin.mode = mode[1]

\* YAMLConfigParser::ShouldLoadPlugin: the loops over plugins_ from position i
RECURSIVE ShouldLoadPluginFrom(_, _, _, _)
ShouldLoadPluginFrom(plugins, i, filename, mode) ==
    IF i > Len(plugins) THEN TRUE
    ELSE IF plugins[i].file = filename
    THEN IF mode = NullPtr \/ mode[1] = <<>> THEN plugins[i].enabled
         ELSE IF ~plugins[i].enabled THEN FALSE
         ELSE IF plugins[i].mode = <<>> THEN TRUE
         ELSE plugins[i].mode = mode[1]
    ELSE ShouldLoadPluginFrom(plugins, i + 1, filename, mode)

\* YAMLConfigParser::ShouldLoadPlugin
ShouldLoadPlugin(plugins, filename, mode) ==
    IF filename = NullPtr \/ filename[1] = <<>> THEN TRUE
    ELSE ShouldLoadPluginFrom(plugins, 1, filename[1], mode)

\* the YAMLConfigParser object
Self ==
    [mode_groups_ |-> mode_groups_, plugins_ |-> plugins_, parse_error_ |-> parse_error_,
     last_error_ |-> last_error_]

\* the configuration texts the parser is given
ConfigInputs ==
    { <<"p", "l", "u", "g", "i", "n", "s", ":", "\n", " ", "f", "i", "l", "e", ":",
        " ", "a", "\n", " ", "e", "n", "a", "b", "l", "e", "d", ":", " ", "n", "o",
        "\n", " ", "f", "i", "l", "e", ":", " ", "a", "\n", " ", "m", "o", "d", "e",
        ":", " ", "m", "\n", " ", "f", "i", "l", "e", ":", " ", "b", "\n">>,
      <<"p", "l", "u", "g", "i", "n", "s", ":", "\n", " ", "f", "i", "l", "e", ":",
        " ", "a", "\n", " ", "m", "o", "d", "e", ":", " ", "m", "\n", " ", "f", "i",
        "l", "e", ":", " ", "a", "\n", " ", "e", "n", "a", "b", "l", "e", "d", ":",
        " ", "0", "\n">>,
      <<"m", "o", "d", "e", "g", "r", "o", "u", "p", "s", ":", "\n", " ", "n", "a",
        "m", "e", ":", " ", "g", "\n", " ", "d", "e", "s", "c", "r", "i", "p", "t",
        "i", "o", "n", ":", " ", "d", "\n", " ", " ", "-", " ", "r", "e", "q", "u",
        "i", "r", "e", "d", "_", "p", "l", "u", "g", "i", "n", "s", "\n", " ", " ",
        "-", " ", "x", "\n", " ", "f", "i", "l", "e", ":", " ", "b", "\n", " ", "k",
        "e", "y", ":", " ", "k", "\n", " ", "v", "a", "l", "u", "e", ":", " ", "v",
        "\n">>,
      <<"#", " ", "c", "\n", "\n", "m", "o", "d", "e", "g", "r", "o", "u", "p", "s",
        ":", "\n", " ", "n", "a", "m", "e", ":", " ", "\"", "g", "\"", "\n", " ", " ",
        "-", " ", "d", "e", "p", "e", "n", "d", "e", "n", "c", "i", "e", "s", "\n",
        "p", "l", "u", "g", "i", "n", "s", ":", "\n", " ", " ", "f", "i", "l", "e",
        ":", " ", "'", "b", "'", " ", "#", " ", "c", "\n", " ", " ", "e", "n", "a",
        "b", "l", "e", "d", ":", " ", "y", "e", "s", " ", "\n", " ", " ", "m", "o",
        "d", "e", ":", " ", "m">>,
      <<"f", "i", "l", "e", ":", " ", "a", "\n">>,
      <<>> }

\* the file names and modes ShouldLoadPlugin is asked about
FileNames == { NullPtr, StrDup(<<>>), StrDup(<<"a">>), StrDup(<<"b">>), StrDup(<<"z">>) }
Modes == { NullPtr, StrDup(<<>>), StrDup(<<"m">>), StrDup(<<"x">>) }

\* a call on the parser object may start
CanCall == pc = "idle" /\ nops < MaxOps

\* the number of records the parser object holds
RecordCount == Len(mode_groups_) + Len(plugins_)

\* parser.LoadFromString(content, error, maxlength)
LoadFromStringCall(content) ==
    /\ CanCall
    /\ \E r \in {LoadFromString(Self, content)} :
          /\ mode_groups_' = r.self.mode_groups_
          /\ plugins_' = r.self.plugins_
          /\ parse_error_' = r.self.parse_error_
          /\ last_error_' = r.self.last_error_
          /\ last' = Op("LoadFromString", "", "",
                        [content |-> content, ret |-> r.ret, error |-> r.error,
                         had |-> RecordCount])
    /\ nops' = nops + 1
    /\ UNCHANGED <<state, line_buffer, heap, docs, pc, exception, made, io>>

\* parser.LoadModeGroupConfig(path, error, maxlength) on a file of the given bytes
LoadModeGroupConfigCall(bytes, opens, allocates, read) ==
    /\ CanCall
    /\ \E r \in {LoadModeGroupConfig(Self, bytes, opens, allocates, read)} :
          /\ mode_groups_' = r.self.mode_groups_
          /\ plugins_' = r.self.plugins_
          /\ parse_error_' = r.self.parse_error_
          /\ last_error_' = r.self.last_error_
          /\ last' = Op("LoadModeGroupConfig", "", "",
                        [content |-> IF opens /\ allocates
                                     THEN StrDup(SubSeq(bytes, 1, read)) ELSE NullPtr,
                         ret |-> r.ret, error |-> r.error, had |-> RecordCount])
    /\ io' = IF ~opens THEN [NoFile EXCEPT !.bytes = bytes]
             ELSE [bytes |-> bytes, fp |-> "closed", size |-> Len(bytes),
                   content |-> allocates, read |-> IF allocates THEN read ELSE 0]
    /\ nops' = nops + 1
    /\ UNCHANGED <<state, line_buffer, heap, docs, pc, exception, made>>

\* parser.Clear()
ClearCall ==
    /\ CanCall
    /\ LET s == ParserClear(Self)
       IN /\ mode_groups_' = s.mode_groups_
          /\ plugins_' = s.plugins_
          /\ parse_error_' = s.parse_error_
          /\ last_error_' = s.last_error_
    /\ last' = Op("Clear", "", "", [had |-> RecordCount])
    /\ nops' = nops + 1
    /\ UNCHANGED <<state, line_buffer, heap, docs, pc, exception, made, io>>

\* parser.ShouldLoadPlugin(filename, mode)
ShouldLoadPluginCall(filename, mode) ==
    /\ pc = "idle"
    /\ last' = Op("ShouldLoadPlugin", "", "",
                  [filename |-> filename, mode |-> mode,
                   ret |-> ShouldLoadPlugin(plugins_, filename, mode)])
    /\ UNCHANGED <<state, line_buffer, heap, docs, pc, exception, made, nops, io, parserVars>>

NextConfig ==
    \/ \E content \in {NullPtr} \cup { StrDup(c) : c \in ConfigInputs } :
           LoadFromStringCall(content)
    \/ CanCall /\ \E bytes \in ConfigInputs, opens, allocates \in BOOLEAN :
                      \E read \in {Len(bytes), Len(bytes) \div 2} :
                          LoadModeGroupConfigCall(bytes, opens, allocates, read)
    \/ ClearCall
    \/ \E filename \in FileNames, mode \in Modes : ShouldLoadPluginCall(filename, mode)

SpecConfig == Init /\ [][NextConfig]_vars

\* the answer the contract gives for ShouldLoadPlugin(filename, mode)
FirstEntryDecides(plugins, filename, mode) ==
    IF filename = NullPtr \/ filename[1] = <<>> THEN TRUE
    ELSE LET entries == { i \in 1..Len(plugins) : plugins[i].file = filename[1] }
         IN IF entries = {} THEN TRUE
            ELSE LET entry == plugins[Least(entries)]
                 IN IF ~entry.enabled THEN FALSE
                    ELSE IF mode = NullPtr \/ mode[1] = <<>> THEN entry.enabled
                    ELSE entry.mode = <<>> \/ entry.mode = mode[1]

\* C16: ShouldLoadPlugin(file, mode) returns true for every file that has no
\* entry in the parsed plugin list and for a null or empty file name; for a
\* file with entries the first entry decides: false if it is disabled, its
\* enabled flag with a null or empty mode, and with a non-empty mode and an
\* enabled entry true exactly when the entry has no mode restriction or its
\* mode equals the given mode.
C16_ShouldLoadPluginDecides ==
    /\ \A filename \in FileNames, mode \in Modes :
           ShouldLoadPlugin(plugins_, filename, mode)
               = FirstEntryDecides(plugins_, filename, mode)
    /\ last.op = "ShouldLoadPlugin" =>
           last.arg.ret = FirstEntryDecides(plugins_, last.arg.filename, last.arg.mode)

\* ShouldLoadPlugin has answered false, with a mode, for a file whose first
\* entry is disabled and which has a later entry that is enabled
C16_Witness ==
    /\ last.op = "ShouldLoadPlugin"
    /\ last.arg.filename # NullPtr /\ last.arg.mode # NullPtr /\ last.arg.mode[1] # <<>>
    /\ last.arg.ret = FALSE
    /\ \E i, j \in 1..Len(plugins_) :
           /\ i < j
           /\ plugins_[i].file = last.arg.filename[1]
           /\ plugins_[j].file = last.arg.filename[1]
           /\ \A k \in 1..(i - 1) : plugins_[k].file # last.arg.filename[1]
           /\ ~plugins_[i].enabled
           /\ plugins_[j].enabled

LoadOps == {"LoadFromString", "LoadModeGroupConfig"}

\* C17: after any sequence of LoadFromString, LoadModeGroupConfig and Clear
\* calls on one parser, the mode groups and the plugins are exactly the
\* records parsed from the content of the most recent load call (nothing of
\* earlier loads survives, also when that load failed), both are empty right
\* after Clear, a load with null content returns false and a load of
\* non-null content returns true.
C17_OnlyLastLoadSurvives ==
    [][/\ last'.op \in LoadOps =>
              LET fresh == ParseContent(ParserCtor, last'.arg.content)
              IN /\ mode_groups_' = fresh.self.mode_groups_
                 /\ plugins_' = fresh.self.plugins_
                 /\ last'.arg.ret = (last'.arg.content # NullPtr)
                 /\ ~last'.arg.ret => (mode_groups_' = <<>> /\ plugins_' = <<>>)
       /\ last'.op = "Clear" => (mode_groups_' = <<>> /\ plugins_' = <<>>)
       /\ last'.op = "ShouldLoadPlugin" => UNCHANGED <<mode_groups_, plugins_>>]_vars

\* a second load has succeeded on a parser that held records of an earlier
\* load, and has left plugins of its own
C17_Witness ==
    /\ last.op \in LoadOps
    /\ nops >= 2
    /\ last.arg.had > 0
    /\ last.arg.ret
    /\ plugins_ # <<>>
    /\ RecordCount < last.arg.had

\* the physical line of the text that holds position p, without its line feed
PhysLine(content, p) ==
    LET start == LineStartOf(content, p)
        ends == { i \in (start + 1)..Len(content) : content[i] = "\n" }
        stop == IF ends = {} THEN Len(content) ELSE Least(ends) - 1
    IN SubSeq(content, start + 1, stop)

\* a line without its indentation
RECURSIVE Unindented(_)
Unindented(l) == IF l # <<>> /\ Head(l) \in {" ", "\t"} THEN Unindented(Tail(l)) ELSE l

\* a text without the white space at its end
RECURSIVE Trimmed(_)
Trimmed(s) == IF s # <<>> /\ IsSpace(s[Len(s)]) THEN Trimmed(SubSeq(s, 1, Len(s) - 1)) ELSE s

\* a text without the white space at its start
RECURSIVE LeftTrimmed(_)
LeftTrimmed(s) == IF s # <<>> /\ IsSpace(Head(s)) THEN LeftTrimmed(Tail(s)) ELSE s

\* the position of the first colon of a line that has a key before it: the
\* key is not empty and holds no white space; 0 when the line has no key
KeyColon(l) ==
    LET colons == { i \in 2..Len(l) : l[i] = ":" /\ \A m \in 1..(i - 1) : l[m] # ":" }
    IN IF colons = {} THEN 0
       ELSE LET c == Least(colons)
            IN IF \A m \in 1..(c - 1) : ~IsSpace(l[m]) THEN c ELSE 0

\* the key and the value of a line `key: value`
KeyOf(l) == SubSeq(Unindented(l), 1, KeyColon(Unindented(l)) - 1)
ValueOf(l) ==
    Trimmed(LeftTrimmed(SubSeq(Unindented(l), KeyColon(Unindented(l)) + 1,
                               Len(Unindented(l)))))

\* the text starts with the sequence marker "- "
HasDash(s) == Len(s) >= 2 /\ s[1] = "-" /\ s[2] = " "

\* a line `key: value` whose value is non-empty, no comment and no sequence item
IsKeyValueLine(l) ==
    /\ IsEntryLine(l)
    /\ ~HasDash(Unindented(l))
    /\ KeyColon(Unindented(l)) # 0
    /\ ValueOf(l) # <<>>
    /\ Head(ValueOf(l)) # "#"
    /\ ~HasDash(ValueOf(l))

\* a line that is a sequence item, with or without a key before the marker
IsItemLine(l) ==
    \/ HasDash(Unindented(l))
    \/ (IsEntryLine(l) /\ KeyColon(Unindented(l)) # 0 /\ HasDash(ValueOf(l)))

\* the text of a sequence item: the remainder after the marker
ItemText(l) ==
    IF HasDash(Unindented(l)) THEN Trimmed(SubSeq(Unindented(l), 3, Len(Unindented(l))))
    ELSE Trimmed(SubSeq(ValueOf(l), 3, Len(ValueOf(l))))

\* the indentation of the entry line before position p of the text, -1 when
\* there is none
PrevEntryIndent(content, p) ==
    LET start == LineStartOf(content, p)
        before == IF start = 0 THEN <<>> ELSE SplitLines(SubSeq(content, 1, start - 1))
        entries == { i \in 1..Len(before) : IsEntryLine(before[i]) }
    IN IF entries = {} THEN -1
       ELSE LeadingIndent(before[CHOOSE i \in entries : \A j \in entries : j <= i], 0)

\* the line loop has just passed a line to ProcessLine
LineProcessed == last'.op = "line" /\ last'.arg.processed

\* the indent stack and the current node are as before the step
CursorUnchanged ==
    /\ state'.indent_top = state.indent_top
    /\ state'.indent_stack = state.indent_stack
    /\ state'.current = state.current

\* the addresses of the nodes created by the step
Created == (Len(heap) + 1)..Len(heap')

\* C21: a line `key: value` whose value is non-empty and not a comment, at
\* the same indentation as the entry before it, is a flat key/value pair:
\* ProcessLine appends to current one Scalar leaf whose text is the value
\* (trailing white space trimmed) with a key side-node holding the key text,
\* creates no Mapping node, and leaves the indent stack and current unchanged.
C21_FlatPairIsLeaf ==
    [][LET l == PhysLine(state.content, state.position)
       IN (/\ LineProcessed
           /\ IsKeyValueLine(l)
           /\ PrevEntryIndent(state.content, state.position) = LeadingIndent(l, 0)) =>
              /\ CursorUnchanged
              /\ \A n \in Created : heap'[n].type_ # "Type_Map"
              /\ \E leaf \in Created :
                     /\ heap'[state.current].children
                            = Append(heap[state.current].children, leaf)
                     /\ heap'[leaf].type_ = "Type_Scalar"
                     /\ heap'[leaf].scalar_value_ = <<ValueOf(l)>>
                     /\ heap'[leaf].children = <<>>
                     /\ heap'[leaf].map_key_ \in Created
                     /\ heap'[heap'[leaf].map_key_].scalar_value_ = <<KeyOf(l)>>]_vars

\* C22: a line whose text begins with "- " (after its indentation, and after
\* the colon and white space if it has a key) is a sequence item:
\* ProcessLine appends to current exactly one Scalar child without a key
\* whose text is the remainder after the marker with trailing white space
\* trimmed, and leaves the indent stack unchanged.
C22_DashLineIsItem ==
    [][LET l == PhysLine(state.content, state.position)
       IN (LineProcessed /\ IsItemLine(l)) =>
              /\ state'.indent_top = state.indent_top
              /\ state'.indent_stack = state.indent_stack
              /\ Len(heap') = Len(heap) + 1
              /\ \E item \in Created :
                     /\ heap'[state'.current].children
                            = Append(heap[state'.current].children, item)
                     /\ heap'[item].type_ = "Type_Scalar"
                     /\ heap'[item].scalar_value_ = <<ItemText(l)>>
                     /\ heap'[item].map_key_ = 0]_vars

\* C23: every blank line and every line whose first non-blank character is
\* the comment marker, wherever it stands in the input (the very first line
\* and indented lines included), produces no node and leaves the indent
\* stack and the current node unchanged.
C23_BlankCommentNoNode ==
    [][LET l == PhysLine(state.content, state.position)
       IN (last'.op = "line" /\ (IsBlankLine(l) \/ IsCommentLine(l))) =>
              /\ heap' = heap
              /\ CursorUnchanged]_vars

\* C24: in every tree built by Load or by the builder operations, a node
\* carries scalar text if and only if its kind is Scalar: Null, Sequence and
\* Mapping nodes, the Mapping nodes of "key:" openers included, have none.
C24_ScalarTextIffScalar ==
    \A n \in LiveNodes(heap) : (heap[n].scalar_value_ # NullPtr) <=> IsScalar(heap, n)

\* C25: in every tree built by Load or by the builder operations, only nodes
\* of kind Sequence or Mapping have children; the root Load returns for an
\* input with at least one entry is a Mapping; push_back never leaves a Null
\* or Scalar node holding children.
C25_OnlyContainersHaveChildren ==
    /\ \A n \in LiveNodes(heap) :
           heap[n].children # <<>> => (IsSequence(heap, n) \/ IsMap(heap, n))
    /\ (last.op = "return" /\ EntryLineCount(state.content) >= 1) => IsMap(heap, docs["d"])

C27_IndentStackIncreasing ==
    [][pc' \in {"loop", "done"} =>
          /\ state'.indent_stack[0] = -1
          /\ \A i \in 1..state'.indent_top :
                 state'.indent_stack[i - 1] < state'.indent_stack[i]
          /\ LineProcessed =>
                 LET pushed == \E n \in Created : heap'[n].type_ = "Type_Map"
                     kept == IF pushed THEN state'.indent_top - 1 ELSE state'.indent_top
                 IN /\ \A i \in 1..kept : state'.indent_stack[i] < last'.arg.indent
                    /\ pushed =>
                           /\ state'.indent_stack[state'.indent_top] = last'.arg.indent
                           /\ kept <= state.indent_top]_vars

\* a second opener has been pushed after the pop loop removed the entry of
\* the first one, which had the same indentation
C27_Witness ==
    /\ pc = "loop"
    /\ last.op = "line" /\ last.arg.processed
    /\ state.indent_top = 1
    /\ state.indent_stack[1] = last.arg.indent
    /\ Cardinality({ n \in LiveNodes(heap) : IsMap(heap, n) }) >= 2

\* C28: assignment and typed read round-trip: after n = b, n.as_bool() is b;
\* after n = i, n.as_int() is i and n.as_string() is the decimal text of i,
\* with a leading minus sign for negative i.
C28_AssignReadRoundTrip ==
    [][LET n == docs[last'.target]
       IN /\ last'.op = "assign_bool" => as_bool(heap', n) = last'.arg
          /\ last'.op = "assign_int" =>
                 /\ as_int(heap', n) = last'.arg
                 /\ as_string(heap', n) = AssignedText("assign_int", last'.arg)
                 /\ last'.arg < 0 => Head(as_string(heap', n)) = "-"]_vars

\* a negative int has been assigned to a node and reads back as itself
C28_Witness ==
    /\ last.op = "assign_int"
    /\ last.arg < 0
    /\ as_int(heap, docs[last.target]) = last.arg
    /\ as_string(heap, docs[last.target]) = <<"-", "1", "2">>

====
